---- MODULE Spec2Model ----
(***************************************************************************)
(* Model of backend/app.py: the EVChargingAPI helpers (time-of-use rates,  *)
(* solar potential, optimization score, weather fetch) and the             *)
(* /api/optimize-session, /api/current-conditions and /api/stations       *)
(* handlers.                                                               *)
(*                                                                         *)
(* Units (fixed point, the source computes in floats):                     *)
(*   rates    in mills, 0.001 $/kWh          (0.223 $/kWh = 223)            *)
(*   scores   in thousandths                 (0.5 = 500)                    *)
(*   energy   in Wh, power in W              (50 kW = 50000)                *)
(*   ghi      in mW/m^2                                                     *)
(*   cost     in Wh * mills                  (1 $ = 10^6)                   *)
(*   time     in minutes since a Monday 00:00                               *)
(***************************************************************************)
EXTENDS Integers, Sequences, FiniteSets, TLC

VARIABLES
    models,             \* self.models: the keys of the loaded model table
    scaler,             \* self.scaler is loaded (truthy)
    api_key,            \* self.api_keys['OPENWEATHER'] is set
    now,                \* datetime.now(): [hour, month]
    pc,                 \* position of the optimize-session handler
    request,            \* parsed request fields
    current_time,       \* loop variable of the candidate-hour loop
    schedule,           \* candidate hours, in the order appended
    schedule_df,        \* the candidates sorted by score
    optimal_schedule,   \* the entries allocated
    remaining_energy,   \* energy left when the allocation ended
    response,           \* the HTTP response of the handler
    calls,              \* helper calls made while serving the request
    externals,          \* per candidate hour: what the providers answered
    first,              \* the earlier of two requests compared with each other
    call,               \* a direct call of one helper: its arguments
    ret,                \* ... and its outcome
    ev_api,             \* attributes of the shared EVChargingAPI object
    stations_req,       \* the /api/stations request being served
    conditions_req      \* the /api/current-conditions request being served

vars == <<models, scaler, api_key, now, pc, request, current_time, schedule,
          schedule_df, optimal_schedule, remaining_energy, response, calls,
          externals, first, call, ret, ev_api, stations_req,
          conditions_req>>

handlerVars == <<pc, request, current_time, schedule, schedule_df,
                 optimal_schedule, remaining_energy, response, calls,
                 externals>>

None == "none"

Max(a, b) == IF a >= b THEN a ELSE b

Min(a, b) == IF a <= b THEN a ELSE b

(***************************************************************************)
(* Bounds of the model                                                     *)
(***************************************************************************)
\* the longest window has this many candidate hours
MaxCandidates == 3

(***************************************************************************)
(* EVChargingAPI.__init__                                                  *)
(***************************************************************************)
panel_area == 500

efficiency_pct == 17

los_angeles_dept_water_power_rates ==
    [base_period |-> 220, low_peak |-> 223, high_peak |-> 370]

southern_california_edison_rates ==
    [off_peak |-> 270, mid_peak |-> 300, on_peak |-> 320]

\* The attributes __init__ gives the object that get_tou_rates reads.
\* Reading any other attribute raises AttributeError.
self_attrs ==
    [los_angeles_dept_water_power_rates |-> los_angeles_dept_water_power_rates,
     southern_california_edison_rates |-> southern_california_edison_rates]

(***************************************************************************)
(* EVChargingAPI.load_station_data                                         *)
(* Coordinates in hundredths of a degree, distances in hundredths of a     *)
(* mile.  A DataFrame is its set of columns and its sequence of rows.      *)
(***************************************************************************)
EmptyDataFrame == [columns |-> {}, rows |-> <<>>]

\* pd.read_csv('../api_data/los_angeles_ev_stations.csv')
los_angeles_ev_stations ==
    [columns |-> {"id", "station_name", "latitude", "longitude",
                  "total_charging_ports"},
     rows |-> <<[id |-> 1, station_name |-> "Civic Center",
                 latitude |-> 3405, longitude |-> -11824,
                 total_charging_ports |-> 4],
                [id |-> 2, station_name |-> "Union Station",
                 latitude |-> 3410, longitude |-> -11830,
                 total_charging_ports |-> 12],
                [id |-> 3, station_name |-> "Santa Monica Pier",
                 latitude |-> 3390, longitude |-> -11850,
                 total_charging_ports |-> 2]>>]

\* pd.read_csv('../api_data/la_high_capacity_stations.csv')
la_high_capacity_stations ==
    [columns |-> los_angeles_ev_stations.columns,
     rows |-> <<los_angeles_ev_stations.rows[2]>>]

\* a station file without coordinate columns
stations_without_coordinates ==
    [columns |-> {"id", "station_name"},
     rows |-> <<[id |-> 1, station_name |-> "Civic Center"]>>]

\* json.load of ../config/ev_stations_summary.json
\* (a dict is the set of its key-value pairs)
ev_stations_summary == {<<"total_stations", 3>>, <<"dc_fast_stations", 1>>}

\* What load_station_data leaves in the object: the files loaded, files
\* without coordinate columns, or (on any exception) empty tables and {}
StationLoads ==
    {[la_stations |-> los_angeles_ev_stations,
      high_capacity_stations |-> la_high_capacity_stations,
      station_summary |-> ev_stations_summary],
     [la_stations |-> stations_without_coordinates,
      high_capacity_stations |-> stations_without_coordinates,
      station_summary |-> ev_stations_summary],
     [la_stations |-> EmptyDataFrame,
      high_capacity_stations |-> EmptyDataFrame,
      station_summary |-> {}]}

\* The shared attributes of ev_api = EVChargingAPI() after startup
Startup(load) ==
    [los_angeles_dept_water_power_rates |->
         self_attrs.los_angeles_dept_water_power_rates,
     southern_california_edison_rates |->
         self_attrs.southern_california_edison_rates,
     la_stations |-> load.la_stations,
     high_capacity_stations |-> load.high_capacity_stations,
     station_summary |-> load.station_summary]

\* the station files of a complete installation
LoadedStationData ==
    [la_stations |-> los_angeles_ev_stations,
     high_capacity_stations |-> la_high_capacity_stations,
     station_summary |-> ev_stations_summary]

\* a query argument that is absent (None) or has a value
NoArg == [given |-> FALSE, value |-> 0]

NoStationsArgs == [lat |-> NoArg, lon |-> NoArg, radius |-> 0, limit |-> 0]

\* a local name bound to a DataFrame: an object of the request's own, or
\* the shared object held by the attribute of ev_api that ref names
NoDataFrame == [ref |-> "own", frame |-> EmptyDataFrame]

NoStationsResponse ==
    [status |-> None, code |-> 0, message |-> None, stations |-> <<>>,
     count |-> 0, summary |-> {}, total_stations |-> 0,
     high_capacity_stations |-> 0]

\* no /api/stations request is being served
NoStationsRequest ==
    [pc |-> "idle", args |-> NoStationsArgs, stations |-> NoDataFrame,
     response |-> NoStationsResponse]

NoWeather ==
    [temperature |-> 0, humidity |-> 0, wind_speed |-> 0, clouds |-> 0,
     description |-> None]

NoQuote == [rate |-> 0, period |-> None]

NoConditionsResponse ==
    [status |-> None, code |-> 0, message |-> None, weather |-> NoWeather,
     solar |-> [ghi |-> 0, power_kw |-> 0, hourly_energy_kwh |-> 0],
     pricing |-> [los_angeles_dept_water_power |-> NoQuote,
                  southern_california_edison |-> NoQuote]]

\* no /api/current-conditions request is being served
NoConditionsRequest ==
    [pc |-> "idle", weather |-> NoWeather, response |-> NoConditionsResponse]

\* the other two handlers are idle
OthersIdle ==
    /\ stations_req = NoStationsRequest
    /\ conditions_req = NoConditionsRequest

\* self.<attr>[<key>]: a value, or the exception raised by the lookup
GetRate(attr, key) ==
    IF attr \in DOMAIN ev_api
    THEN [raised |-> None, rate |-> ev_api[attr][key], period |-> key]
    ELSE [raised |-> "AttributeError", rate |-> 0, period |-> None]

\* Utility identifiers the code uses: the endpoints' two identifiers and the
\* default of get_tou_rates / predict_optimization_score
Utilities ==
    {"los_angeles_dept_water_power", "southern_california_edison", "ladwp"}

(***************************************************************************)
(* EVChargingAPI.get_tou_rates                                             *)
(***************************************************************************)
\* get_tou_rates without the weekend test
get_tou_rates_ignoring_weekend(hour, is_weekend, utility) ==
    IF utility = "ladwp"
    THEN GetRate("ladwp_rates", "base_period")
    ELSE IF hour < 16 \/ hour >= 22
    THEN GetRate("southern_california_edison_rates", "off_peak")
    ELSE IF (16 <= hour /\ hour < 18) \/ (20 <= hour /\ hour < 22)
    THEN GetRate("southern_california_edison_rates", "mid_peak")
    ELSE GetRate("southern_california_edison_rates", "on_peak")

get_tou_rates(hour, is_weekend, utility) ==
    IF utility = "ladwp"
    THEN IF is_weekend \/ hour >= 20 \/ hour < 10
         THEN GetRate("ladwp_rates", "base_period")
         ELSE IF (10 <= hour /\ hour < 13) \/ (17 <= hour /\ hour < 20)
         THEN GetRate("ladwp_rates", "low_peak")
         ELSE IF 13 <= hour /\ hour < 17
         THEN GetRate("ladwp_rates", "high_peak")
         ELSE GetRate("ladwp_rates", "base_period")
    ELSE IF is_weekend \/ hour < 16 \/ hour >= 22
         THEN GetRate("southern_california_edison_rates", "off_peak")
         ELSE IF (16 <= hour /\ hour < 18) \/ (20 <= hour /\ hour < 22)
         THEN GetRate("southern_california_edison_rates", "mid_peak")
         ELSE IF 18 <= hour /\ hour < 20
         THEN GetRate("southern_california_edison_rates", "on_peak")
         ELSE GetRate("southern_california_edison_rates", "off_peak")

(***************************************************************************)
(* EVChargingAPI.calculate_solar_potential                                 *)
(***************************************************************************)
\* monthly_ghi in hundredths of kWh/m^2/day
monthly_ghi == <<306, 365, 515, 635, 689, 724, 765, 702, 579, 442, 346, 282>>

\* 1000 * cos(radians((hour - 12) * 15)) ** 2, rounded, for the hours the
\* else branch is taken with.  At hours 6 and 18 the float is 3.7e-33.
cos2_permille ==
    [h \in 6..19 |->
        CASE h \in {6, 18} -> 0
          [] h \in {7, 17, 19} -> 67
          [] h \in {8, 16} -> 250
          [] h \in {9, 15} -> 500
          [] h \in {10, 14} -> 750
          [] h \in {11, 13} -> 933
          [] h = 12 -> 1000]

solar_factor(hour) ==
    IF hour < 6 \/ hour > 19 THEN 0 ELSE Max(0, cos2_permille[hour])

\* weather_data.get(key, default)
WeatherGet(weather_data, key, default) ==
    IF key \in DOMAIN weather_data THEN weather_data[key] ELSE default

calculate_solar_potential(clock, weather_data) ==
    LET hour == clock.hour
        month == clock.month
        \* 1 - (clouds / 100) * 0.8, in thousandths
        cloud_factor == 1000 - 8 * WeatherGet(weather_data, "clouds", 0)
        \* base_ghi * solar_factor * 2.5 * cloud_factor, in mW/m^2
        ghi == ((((monthly_ghi[month] * solar_factor(hour)) * cloud_factor)
                    \div 1000) * 25) \div 24
        temp_f == WeatherGet(weather_data, "temperature", 77)
        \* 450 * (1 - 0.004 * ((temp_f - 32) * 5/9 - 25)) = 527 - temp_f
        temp_factor450 == 527 - temp_f
        \* (ghi / 1000) * panel_area * efficiency * temp_factor, in W
        power_w == (((((ghi * panel_area) \div 1000) * efficiency_pct)
                        \div 100) * temp_factor450) \div 450
    IN  [ghi |-> ghi,
         power_kw |-> Max(0, power_w),
         hourly_energy_kwh |-> Max(0, power_w),
         temp_factor |-> temp_factor450,
         cloud_factor |-> cloud_factor]

(***************************************************************************)
(* datetime helpers: a time is a number of minutes since a Monday 00:00    *)
(***************************************************************************)
MinutesPerHour == 60

HoursPerDay == 24

\* dt.hour
HourOf(dt) == (dt \div MinutesPerHour) % HoursPerDay

\* dt.weekday(): Monday is 0
Weekday(dt) == (dt \div (MinutesPerHour * HoursPerDay)) % 7

\* dt.replace(minute=0, second=0, microsecond=0)
\* session_start rounded up to the next hour boundary
TruncateToHour_up(dt) == dt - (dt % MinutesPerHour) + MinutesPerHour

\* session_start.replace(minute=0, second=0, microsecond=0)
TruncateToHour(dt) == dt - (dt % MinutesPerHour)

\* dt.isoformat(): fixed-width fields, most significant first, so that the
\* string order of two results is the lexicographic order of the fields
isoformat(dt) ==
    <<dt \div (MinutesPerHour * HoursPerDay), HourOf(dt), dt % MinutesPerHour>>

(***************************************************************************)
(* EVChargingAPI._get_fallback_weather / fetch_current_weather             *)
(***************************************************************************)
\* (15 + 10 * sin((month - 1) * pi / 6)) * 9/5 + 32, rounded to a degree
seasonal_temp_f == <<59, 68, 75, 77, 75, 68, 59, 50, 43, 41, 43, 50>>

\* values of np.random.normal(0, 3.6), in degrees
NormalNoise == {-4, 4}

_get_fallback_weather(clock, noise) ==
    [temperature |-> seasonal_temp_f[clock.month] + noise,
     humidity |-> 65,
     wind_speed |-> 78,
     clouds |-> 20,
     description |-> "partly cloudy"]

\* What requests.get and the decoding of its body can do: raise (timeout,
\* connection error), answer with a status other than 200, answer 200 with a
\* body lacking a field (KeyError), or answer 200 with a full body.
ApiBodies ==
    [temperature : {77, 530}, humidity : {40}, wind_speed : {50},
     clouds : {0, 100}, description : {"clear sky"}]

ApiOutcomes ==
    [kind : {"raises", "not_200", "missing_field"}, body : {None}]
        \cup [kind : {"ok"}, body : ApiBodies]

\* fetch_current_weather with the fallback only for a missing key and a
\* raising call: any answer's body is decoded
fetch_current_weather_any_status(clock, api, noise) ==
    IF ~api_key
    THEN _get_fallback_weather(clock, noise)
    ELSE IF api.kind \in {"ok", "not_200", "missing_field"}
    THEN IF api.body = None
         THEN [temperature |-> 0, humidity |-> 0, wind_speed |-> 0,
               clouds |-> 0, description |-> None]
         ELSE api.body
    ELSE _get_fallback_weather(clock, noise)

fetch_current_weather(clock, api, noise) ==
    IF ~api_key
    THEN _get_fallback_weather(clock, noise)
    ELSE IF api.kind = "ok"
    THEN api.body
    ELSE _get_fallback_weather(clock, noise)

(***************************************************************************)
(* EVChargingAPI.load_models: any of the model files may fail to load      *)
(***************************************************************************)
model_files ==
    {"rf_los_angeles_dept_water_power", "rf_southern_california_edison",
     "xgb_los_angeles_dept_water_power", "xgb_southern_california_edison",
     "lgb_los_angeles_dept_water_power", "lgb_southern_california_edison",
     "meta_los_angeles_dept_water_power", "meta_southern_california_edison"}

ModelTables ==
    {{}, model_files, {"lgb_southern_california_edison"},
     {"rf_los_angeles_dept_water_power", "xgb_southern_california_edison"}}

(***************************************************************************)
(* EVChargingAPI.predict_optimization_score                                *)
(***************************************************************************)
\* What scaler.transform and model.predict can do: raise, or give a raw score
RawScores == {-200, 0, 300, 700, 1000, 1500}

ModelOutcomes ==
    [kind : {"transform_raises", "predict_raises"}, score : {0}]
        \cup [kind : {"ok"}, score : RawScores]

\* the raw score returned unclamped
Clamp_unclamped(score) == score

\* max(0, min(1, score))
Clamp(score) == Max(0, Min(1000, score))

Returned(score) == [raised |-> None, score |-> score]

\* predict_optimization_score using whichever model is loaded when the
\* utility's own LightGBM model is missing
predict_optimization_score_any_model(dt, weather_data, utility, outcome) ==
    IF models = {} \/ ~scaler
    THEN Returned(500)
    ELSE IF outcome.kind \in {"transform_raises", "predict_raises"}
    THEN Returned(500)
    ELSE Returned(Clamp(outcome.score))

predict_optimization_score(dt, weather_data, utility, outcome) ==
    IF models = {} \/ ~scaler
    THEN Returned(500)
    ELSE
    LET hour == HourOf(dt)
        is_weekend == Weekday(dt) >= 5
        solar_data == calculate_solar_potential(now, weather_data)
        la_rate == get_tou_rates(hour, is_weekend,
                                 "los_angeles_dept_water_power")
        sce_rate == get_tou_rates(hour, is_weekend,
                                  "southern_california_edison")
        model_key == "lgb_" \o utility
    IN  IF la_rate.raised # None
        THEN [raised |-> la_rate.raised, score |-> 0]
        ELSE IF sce_rate.raised # None
        THEN [raised |-> sce_rate.raised, score |-> 0]
        ELSE IF outcome.kind = "transform_raises"
        THEN Returned(500)
        ELSE IF model_key \in models
        THEN IF outcome.kind = "predict_raises"
             THEN Returned(500)
             ELSE Returned(Clamp(outcome.score))
        ELSE Returned(500)

(***************************************************************************)
(* /api/optimize-session                                                   *)
(***************************************************************************)
\* 50 kW max per hour, in Wh
MaxHourEnergy == 50 * 1000

\* Requests: session_start, session_end = session_start + a delta,
\* energy_needed_kwh (a float: zero and negative values parse) and utility
\* Monday 09:30 and Friday 23:00
Starts == {9 * 60 + 30, 4 * 1440 + 23 * 60}

\* among them windows shorter than an hour: 1 (the smallest step), 30, 45
Deltas == {-30, 0, 1, 45} \cup {30 * k : k \in 1..(2 * MaxCandidates - 1)}

Energies == {-5000, 0, 30000, 50000, 70000, 500000}

\* What the model provider and the weather provider do during a request
SessionModelOutcomes ==
    {[kind |-> "predict_raises", score |-> 0],
     [kind |-> "ok", score |-> 300], [kind |-> "ok", score |-> 700]}

SessionApiOutcomes ==
    {[kind |-> "raises", body |-> None],
     [kind |-> "not_200", body |-> None],
     [kind |-> "missing_field", body |-> None],
     [kind |-> "ok",
      body |-> [temperature |-> 77, humidity |-> 40, wind_speed |-> 50,
                clouds |-> 0, description |-> "clear sky"]]}

NoCalls ==
    [fetch_current_weather |-> 0, requests_get |-> 0,
     calculate_solar_potential |-> 0, get_tou_rates |-> 0,
     predict_optimization_score |-> 0]

NoRequest ==
    [session_start |-> 0, session_end |-> 0, energy_needed |-> 0,
     utility |-> None]

NoResponse ==
    [status |-> None, code |-> 0, message |-> None,
     optimization_summary |-> None, charging_schedule |-> <<>>]

ErrorResponse(code, message) ==
    [status |-> "error", code |-> code, message |-> message,
     optimization_summary |-> None, charging_schedule |-> <<>>]

\* sum(item[field] for item in entries)
RECURSIVE SumField(_, _)
SumField(entries, field) ==
    IF entries = <<>> THEN 0
    ELSE Head(entries)[field] + SumField(Tail(entries), field)

\* a < b for two isoformat strings
IsoLess(a, b) ==
    \E i \in 1..Len(a) :
        /\ a[i] < b[i]
        /\ \A j \in 1..(i - 1) : a[j] = b[j]

\* sorted(entries, key=lambda x: x['datetime']): a stable insertion
RECURSIVE InsertByDatetime(_, _)
InsertByDatetime(sorted, entry) ==
    IF sorted = <<>> THEN <<entry>>
    ELSE IF IsoLess(entry.datetime, Head(sorted).datetime)
    THEN <<entry>> \o sorted
    ELSE <<Head(sorted)>> \o InsertByDatetime(Tail(sorted), entry)

\* the allocated entries returned in allocation order
SortedByDatetime_unsorted(entries) == entries

\* sorted(optimal_schedule, key=lambda x: x['datetime'])
RECURSIVE SortedByDatetime(_)
SortedByDatetime(entries) ==
    IF entries = <<>> THEN <<>>
    ELSE InsertByDatetime(SortedByDatetime(SubSeq(entries, 1, Len(entries) - 1)),
                          entries[Len(entries)])

\* schedule_df.sort_values('optimization_score', ascending=False): the rows
\* in descending score order.  The default sort kind is quicksort, which is
\* not stable: rows of equal score come out in an order the build decides.
RECURSIVE DescendingOrders(_, _)
DescendingOrders(rows, idxs) ==
    IF idxs = {} THEN {<<>>}
    ELSE LET top == {i \in idxs :
                       \A j \in idxs : rows[i].optimization_score
                                           >= rows[j].optimization_score}
         IN  UNION {{<<rows[i]>> \o rest :
                        rest \in DescendingOrders(rows, idxs \ {i})} :
                    i \in top}

\* sort_values with ascending=True
sort_values_ascending(rows) ==
    {[i \in DOMAIN r |-> r[Len(r) + 1 - i]] :
        r \in DescendingOrders(rows, DOMAIN rows)}

sort_values(rows) == DescendingOrders(rows, DOMAIN rows)

\* data = request.get_json() and the parse of its fields
Receive ==
    /\ pc = "idle"
    /\ \E start \in Starts, delta \in Deltas, energy \in Energies,
          utility \in Utilities :
          request' = [session_start |-> start, session_end |-> start + delta,
                      energy_needed |-> energy, utility |-> utility]
    /\ pc' = "validate"
    /\ UNCHANGED <<ev_api, stations_req, conditions_req>>
    /\ UNCHANGED <<models, scaler, api_key, now, current_time, schedule,
                   schedule_df, optimal_schedule, remaining_energy, response,
                   calls, externals, first, call, ret>>

\* Validate with session_end < session_start as the rejection test
Validate_strict ==
    /\ pc = "validate"
    /\ IF request.session_end < request.session_start
       THEN /\ response' = ErrorResponse(400,
                              "Session end must be after session start")
            /\ pc' = "done"
            /\ UNCHANGED current_time
       ELSE IF request.energy_needed <= 0
       THEN /\ response' = ErrorResponse(400, "Energy needed must be positive")
            /\ pc' = "done"
            /\ UNCHANGED current_time
       ELSE /\ current_time' = TruncateToHour(request.session_start)
            /\ pc' = "loop"
            /\ UNCHANGED response
    /\ UNCHANGED <<ev_api, stations_req, conditions_req>>
    /\ UNCHANGED <<models, scaler, api_key, now, request, schedule,
                   schedule_df, optimal_schedule, remaining_energy, calls,
                   externals, first, call, ret>>

\* Validate with the loop starting at session_start itself
Validate_untruncated ==
    /\ pc = "validate"
    /\ IF request.session_end <= request.session_start
       THEN /\ response' = ErrorResponse(400,
                              "Session end must be after session start")
            /\ pc' = "done"
            /\ UNCHANGED current_time
       ELSE IF request.energy_needed <= 0
       THEN /\ response' = ErrorResponse(400, "Energy needed must be positive")
            /\ pc' = "done"
            /\ UNCHANGED current_time
       ELSE /\ current_time' = request.session_start
            /\ pc' = "loop"
            /\ UNCHANGED response
    /\ UNCHANGED <<ev_api, stations_req, conditions_req>>
    /\ UNCHANGED <<models, scaler, api_key, now, request, schedule,
                   schedule_df, optimal_schedule, remaining_energy, calls,
                   externals, first, call, ret>>

\* Validate inputs; on success schedule = [] and current_time is truncated
Validate ==
    /\ pc = "validate"
    /\ IF request.session_end <= request.session_start
       THEN /\ response' = ErrorResponse(400,
                              "Session end must be after session start")
            /\ pc' = "done"
            /\ UNCHANGED current_time
       ELSE IF request.energy_needed <= 0
       THEN /\ response' = ErrorResponse(400, "Energy needed must be positive")
            /\ pc' = "done"
            /\ UNCHANGED current_time
       ELSE /\ current_time' = TruncateToHour(request.session_start)
            /\ pc' = "loop"
            /\ UNCHANGED response
    /\ UNCHANGED <<ev_api, stations_req, conditions_req>>
    /\ UNCHANGED <<models, scaler, api_key, now, request, schedule,
                   schedule_df, optimal_schedule, remaining_energy, calls,
                   externals, first, call, ret>>

\* scaler.transform and model.predict are reached by a call for the utility
ModelConsulted(utility) ==
    models # {} /\ scaler /\ ("lgb_" \o utility) \in models

\* What the providers answered for one candidate hour: whether the weather
\* API was asked and answered, the snapshot used, and the model's answer
ExternalData(api, weather, outcome, utility) ==
    [api |-> IF ~api_key THEN "not_asked"
             ELSE IF api.kind = "ok" THEN "ok" ELSE "failed",
     weather |-> weather,
     outcome |-> IF ModelConsulted(utility) THEN outcome
                 ELSE [kind |-> "not_asked", score |-> 0]]

\* the clock read with the hour of the candidate under evaluation
datetime_now_of_candidate ==
    [hour |-> HourOf(current_time), month |-> now.month]

\* now = datetime.now() inside calculate_solar_potential: the wall clock,
\* whatever hour the loop is evaluating
datetime_now == now

\* The body of the candidate-hour loop, with the weather provider answering
\* api, the fallback drawing noise and the model provider answering outcome
LoopIteration(api, noise, outcome) ==
    LET weather == fetch_current_weather(now, api, noise)
        solar == calculate_solar_potential(datetime_now, weather)
        hour == HourOf(current_time)
        is_weekend == Weekday(current_time) >= 5
        tou == get_tou_rates(hour, is_weekend, request.utility)
        score == predict_optimization_score(current_time, weather,
                                            request.utility, outcome)
        attempts == IF api_key THEN 1 ELSE 0
    IN  IF tou.raised # None
        THEN \* except Exception at the request boundary
             /\ response' = ErrorResponse(500, tou.raised)
             /\ pc' = "done"
             /\ calls' = [calls EXCEPT
                            !.fetch_current_weather = @ + 1,
                            !.requests_get = @ + attempts,
                            !.calculate_solar_potential = @ + 1,
                            !.get_tou_rates = @ + 1]
             /\ UNCHANGED <<schedule, current_time, externals>>
        ELSE IF score.raised # None
        THEN /\ response' = ErrorResponse(500, score.raised)
             /\ pc' = "done"
             /\ calls' = [calls EXCEPT
                            !.fetch_current_weather = @ + 1,
                            !.requests_get = @ + attempts,
                            !.calculate_solar_potential = @ + 1,
                            !.get_tou_rates = @ + 1,
                            !.predict_optimization_score = @ + 1]
             /\ UNCHANGED <<schedule, current_time, externals>>
        ELSE /\ schedule' = Append(schedule,
                    [datetime |-> isoformat(current_time),
                     hour |-> hour,
                     optimization_score |-> score.score,
                     utility_rate |-> tou.rate,
                     solar_power_kw |-> solar.power_kw,
                     temperature |-> weather.temperature])
             /\ externals' = Append(externals,
                    ExternalData(api, weather, outcome, request.utility))
             /\ current_time' = current_time + MinutesPerHour
             /\ calls' = [calls EXCEPT
                            !.fetch_current_weather = @ + 1,
                            !.requests_get = @ + attempts,
                            !.calculate_solar_potential = @ + 1,
                            !.get_tou_rates = @ + 1,
                            !.predict_optimization_score = @ + 1]
             /\ UNCHANGED <<response, pc>>

\* the loop with session_end itself as a candidate
LoopStep_inclusive ==
    /\ pc = "loop"
    /\ current_time <= request.session_end
    /\ \E api \in SessionApiOutcomes, noise \in NormalNoise,
          outcome \in SessionModelOutcomes :
          LoopIteration(api, noise, outcome)
    /\ UNCHANGED <<ev_api, stations_req, conditions_req>>
    /\ UNCHANGED <<models, scaler, api_key, now, request, schedule_df,
                   optimal_schedule, remaining_energy, first, call, ret>>

\* One iteration of: while current_time < session_end
LoopStep ==
    /\ pc = "loop"
    /\ current_time < request.session_end
    /\ \E api \in SessionApiOutcomes, noise \in NormalNoise,
          outcome \in SessionModelOutcomes :
          LoopIteration(api, noise, outcome)
    /\ UNCHANGED <<ev_api, stations_req, conditions_req>>
    /\ UNCHANGED <<models, scaler, api_key, now, request, schedule_df,
                   optimal_schedule, remaining_energy, first, call, ret>>

\* the entry with the hour's whole solar power as its offset
ScheduleEntry_whole_solar(hour_data, hour_energy) ==
    [datetime |-> hour_data.datetime,
     hour |-> hour_data.hour,
     energy_kwh |-> hour_energy,
     charging_cost |-> hour_energy * hour_data.utility_rate,
     utility_rate |-> hour_data.utility_rate,
     optimization_score |-> hour_data.optimization_score,
     solar_available_kw |-> hour_data.solar_power_kw,
     solar_offset |-> hour_data.solar_power_kw]

\* the entry the allocation loop appends for a row
ScheduleEntry(hour_data, hour_energy) ==
    [datetime |-> hour_data.datetime,
     hour |-> hour_data.hour,
     energy_kwh |-> hour_energy,
     charging_cost |-> hour_energy * hour_data.utility_rate,
     utility_rate |-> hour_data.utility_rate,
     optimization_score |-> hour_data.optimization_score,
     solar_available_kw |-> hour_data.solar_power_kw,
     solar_offset |-> Min(hour_energy, hour_data.solar_power_kw)]

\* the allocation loop without the 50 kW cap
RECURSIVE AllocateEnergy_uncapped(_, _, _)
AllocateEnergy_uncapped(rows, remaining, allocated) ==
    IF rows = <<>> \/ remaining <= 0
    THEN [optimal_schedule |-> allocated, remaining_energy |-> remaining]
    ELSE AllocateEnergy_uncapped(Tail(rows), 0,
                                 Append(allocated,
                                        ScheduleEntry(Head(rows), remaining)))

\* for _, hour_data in schedule_df.iterrows(): ... , from the given row on
RECURSIVE AllocateEnergy(_, _, _)
AllocateEnergy(rows, remaining, allocated) ==
    IF rows = <<>> \/ remaining <= 0
    THEN [optimal_schedule |-> allocated, remaining_energy |-> remaining]
    ELSE LET hour_energy == Min(remaining, MaxHourEnergy)
         IN  AllocateEnergy(Tail(rows), remaining - hour_energy,
                            Append(allocated,
                                   ScheduleEntry(Head(rows), hour_energy)))

\* the success response with the allocated energy as total_energy_kwh
SuccessResponse_allocated(energy_needed, utility, entries) ==
    LET total_cost == SumField(entries, "charging_cost")
        total_solar_offset == SumField(entries, "solar_offset")
        total_energy == SumField(entries, "energy_kwh")
    IN  [status |-> "success", code |-> 200, message |-> None,
         optimization_summary |->
           [total_energy_kwh |-> total_energy,
            total_cost |-> total_cost,
            average_rate |-> IF total_energy > 0
                             THEN total_cost \div total_energy ELSE 0,
            solar_offset_kwh |-> total_solar_offset,
            solar_percentage |-> IF total_energy > 0
                                 THEN (total_solar_offset * 100)
                                          \div total_energy
                                 ELSE 0,
            charging_hours |-> Len(entries),
            utility |-> utility],
         charging_schedule |-> SortedByDatetime(entries)]

\* the success response built from the allocated entries
SuccessResponse(energy_needed, utility, entries) ==
    LET total_cost == SumField(entries, "charging_cost")
        total_solar_offset == SumField(entries, "solar_offset")
    IN  [status |-> "success", code |-> 200, message |-> None,
         optimization_summary |->
           [total_energy_kwh |-> energy_needed,
            total_cost |-> total_cost,
            average_rate |-> IF energy_needed > 0
                             THEN total_cost \div energy_needed ELSE 0,
            solar_offset_kwh |-> total_solar_offset,
            solar_percentage |-> IF energy_needed > 0
                                 THEN (total_solar_offset * 100)
                                          \div energy_needed
                                 ELSE 0,
            charging_hours |-> Len(entries),
            utility |-> utility],
         charging_schedule |-> SortedByDatetime(entries)]

\* From the sorted frame on: allocate the energy and build the response
AllocateFrom(sorted) ==
    LET allocation == AllocateEnergy(sorted, request.energy_needed, <<>>)
    IN  /\ schedule_df' = sorted
        /\ optimal_schedule' = allocation.optimal_schedule
        /\ remaining_energy' = allocation.remaining_energy
        /\ response' = SuccessResponse(request.energy_needed, request.utility,
                                       allocation.optimal_schedule)

\* Loop exit: sort by optimization score, allocate the energy, answer with
\* the summary and the chronological schedule
AllocateAndRespond ==
    /\ pc = "loop"
    /\ ~(current_time < request.session_end)
    /\ \E sorted \in sort_values(schedule) : AllocateFrom(sorted)
    /\ pc' = "done"
    /\ UNCHANGED <<ev_api, stations_req, conditions_req>>
    /\ UNCHANGED <<models, scaler, api_key, now, request, current_time,
                   schedule, calls, externals, first, call, ret>>

\* The response is sent; the handler's locals are gone
Finish ==
    /\ pc = "done"
    /\ pc' = "idle"
    /\ request' = NoRequest
    /\ current_time' = 0
    /\ schedule' = <<>>
    /\ schedule_df' = <<>>
    /\ optimal_schedule' = <<>>
    /\ remaining_energy' = 0
    /\ response' = NoResponse
    /\ calls' = NoCalls
    /\ externals' = <<>>
    /\ UNCHANGED <<ev_api, stations_req, conditions_req>>
    /\ UNCHANGED <<models, scaler, api_key, now, first, call, ret>>

NoCall == [fn |-> None]

NoRet == [done |-> FALSE]

NoFirst ==
    [done |-> FALSE, request |-> NoRequest, externals |-> <<>>,
     schedule_df |-> <<>>, response |-> NoResponse]

HandlerIdle ==
    /\ pc = "idle"
    /\ request = NoRequest
    /\ current_time = 0
    /\ schedule = <<>>
    /\ schedule_df = <<>>
    /\ optimal_schedule = <<>>
    /\ remaining_energy = 0
    /\ response = NoResponse
    /\ calls = NoCalls
    /\ externals = <<>>

\* Deployments: what load_models could load, whether the weather API key is
\* configured, and the wall clock while the requests are served
Deployments ==
    {[models |-> model_files, scaler |-> TRUE, api_key |-> TRUE,
      now |-> [hour |-> 9, month |-> 6]],
     [models |-> model_files, scaler |-> TRUE, api_key |-> FALSE,
      now |-> [hour |-> 19, month |-> 12]],
     [models |-> {"lgb_southern_california_edison"}, scaler |-> TRUE,
      api_key |-> FALSE, now |-> [hour |-> 9, month |-> 6]],
     [models |-> model_files, scaler |-> FALSE, api_key |-> FALSE,
      now |-> [hour |-> 9, month |-> 6]],
     [models |-> {}, scaler |-> TRUE, api_key |-> TRUE,
      now |-> [hour |-> 22, month |-> 1]],
     [models |-> {}, scaler |-> FALSE, api_key |-> TRUE,
      now |-> [hour |-> 19, month |-> 12]]}

\* After construction
Init ==
    /\ \E d \in Deployments :
          /\ models = d.models
          /\ scaler = d.scaler
          /\ api_key = d.api_key
          /\ now = d.now
    /\ HandlerIdle
    /\ first = NoFirst
    /\ ev_api = Startup(LoadedStationData)
    /\ OthersIdle
    /\ call = NoCall
    /\ ret = NoRet

Next ==
    \/ Receive
    \/ Validate
    \/ LoopStep
    \/ AllocateAndRespond
    \/ Finish

Spec == Init /\ [][Next]_vars

(***************************************************************************)
(* Two optimize-session requests with the same fields, served one after    *)
(* the other by the same deployment, the providers answering the second    *)
(* as they answered the first.                                             *)
(***************************************************************************)
\* two-candidate windows from both starts
RepeatRequests ==
    [session_start : Starts, delta : {90}, energy_needed : {30000, 70000},
     utility : Utilities]

ReceiveFirst ==
    /\ pc = "idle"
    /\ ~first.done
    /\ \E r \in RepeatRequests :
          request' = [session_start |-> r.session_start,
                      session_end |-> r.session_start + r.delta,
                      energy_needed |-> r.energy_needed,
                      utility |-> r.utility]
    /\ pc' = "validate"
    /\ UNCHANGED <<ev_api, stations_req, conditions_req>>
    /\ UNCHANGED <<models, scaler, api_key, now, current_time, schedule,
                   schedule_df, optimal_schedule, remaining_energy, response,
                   calls, externals, first, call, ret>>

LoopStepFirst == ~first.done /\ LoopStep

AllocateAndRespondFirst == ~first.done /\ AllocateAndRespond

\* The first response is sent and remembered
FinishFirst ==
    /\ pc = "done"
    /\ ~first.done
    /\ first' = [done |-> TRUE, request |-> request, externals |-> externals,
                 schedule_df |-> schedule_df, response |-> response]
    /\ pc' = "idle"
    /\ request' = NoRequest
    /\ current_time' = 0
    /\ schedule' = <<>>
    /\ schedule_df' = <<>>
    /\ optimal_schedule' = <<>>
    /\ remaining_energy' = 0
    /\ response' = NoResponse
    /\ calls' = NoCalls
    /\ externals' = <<>>
    /\ UNCHANGED <<ev_api, stations_req, conditions_req>>
    /\ UNCHANGED <<models, scaler, api_key, now, call, ret>>

ReceiveAgain ==
    /\ pc = "idle"
    /\ first.done
    /\ request' = first.request
    /\ pc' = "validate"
    /\ UNCHANGED <<ev_api, stations_req, conditions_req>>
    /\ UNCHANGED <<models, scaler, api_key, now, current_time, schedule,
                   schedule_df, optimal_schedule, remaining_energy, response,
                   calls, externals, first, call, ret>>

\* The providers answer the k-th candidate hour as in the first request;
\* the noise of the fallback weather is drawn afresh
LoopStepAgain ==
    /\ pc = "loop"
    /\ first.done
    /\ current_time < request.session_end
    /\ \E api \in SessionApiOutcomes, noise \in NormalNoise,
          outcome \in SessionModelOutcomes :
          /\ LET k == Len(schedule) + 1
                 data == ExternalData(api, None, outcome, request.utility)
             IN  k \in DOMAIN first.externals =>
                    /\ data.api = first.externals[k].api
                    /\ data.outcome = first.externals[k].outcome
          /\ LoopIteration(api, noise, outcome)
    /\ UNCHANGED <<ev_api, stations_req, conditions_req>>
    /\ UNCHANGED <<models, scaler, api_key, now, request, schedule_df,
                   optimal_schedule, remaining_energy, first, call, ret>>

\* The same build sorts the same scores into the same order
AllocateAndRespondAgain ==
    /\ pc = "loop"
    /\ first.done
    /\ ~(current_time < request.session_end)
    /\ \E sorted \in sort_values(schedule) :
          /\ [i \in DOMAIN sorted |-> sorted[i].datetime]
                = [i \in DOMAIN first.schedule_df |->
                       first.schedule_df[i].datetime]
          /\ AllocateFrom(sorted)
    /\ pc' = "done"
    /\ UNCHANGED <<ev_api, stations_req, conditions_req>>
    /\ UNCHANGED <<models, scaler, api_key, now, request, current_time,
                   schedule, calls, externals, first, call, ret>>

NextRepeat ==
    \/ ReceiveFirst
    \/ Validate
    \/ LoopStepFirst
    \/ AllocateAndRespondFirst
    \/ FinishFirst
    \/ ReceiveAgain
    \/ LoopStepAgain
    \/ AllocateAndRespondAgain

SpecRepeat == Init /\ [][NextRepeat]_vars

(***************************************************************************)
(* /api/stations                                                           *)
(***************************************************************************)
\* floor(sqrt(x)) for the distances of the model
Isqrt(x) == CHOOSE n \in 0..3000 : n * n <= x /\ x < (n + 1) * (n + 1)

\* np.sqrt((row['latitude'] - lat)**2 + (row['longitude'] - lon)**2) * 69
calc_distance(row, lat, lon) ==
    Isqrt(((row.latitude - lat) * (row.latitude - lat)
             + (row.longitude - lon) * (row.longitude - lon)) * 69 * 69)

\* the table bound to a local name without a copy being made
DataFrameCopy_alias(attr) == [ref |-> attr, frame |-> EmptyDataFrame]

\* ev_api.<attr>.copy(): a new object with the same columns and rows
DataFrameCopy(attr) == [ref |-> "own", frame |-> ev_api[attr]]

\* the DataFrame a local name is bound to
Deref(local) == IF local.ref = "own" THEN local.frame ELSE ev_api[local.ref]

\* df[name] = values: the column is added to (or replaced in) the object
SetColumn(df, name, values) ==
    [columns |-> df.columns \cup {name},
     rows |-> [i \in DOMAIN df.rows |->
                 [c \in df.columns \cup {name} |->
                     IF c = name THEN values[i] ELSE df.rows[i][c]]]]

\* request.args of /api/stations
StationsArgs ==
    [lat : {NoArg, [given |-> TRUE, value |-> 3405]},
     lon : {NoArg, [given |-> TRUE, value |-> -11825]},
     radius : {100, 500},
     limit : {1, 20}]

StationsError(message) ==
    [NoStationsResponse EXCEPT !.status = "error", !.code = 500,
                               !.message = message]

\* rows in ascending distance (the distances of the model are distinct)
RECURSIVE InsertByDistance(_, _)
InsertByDistance(sorted, row) ==
    IF sorted = <<>> THEN <<row>>
    ELSE IF row.distance_miles < Head(sorted).distance_miles
    THEN <<row>> \o sorted
    ELSE <<Head(sorted)>> \o InsertByDistance(Tail(sorted), row)

RECURSIVE SortByDistance(_)
SortByDistance(rows) ==
    IF rows = <<>> THEN <<>>
    ELSE InsertByDistance(SortByDistance(SubSeq(rows, 1, Len(rows) - 1)),
                          rows[Len(rows)])

\* the rows within the radius, in the order of the table
RECURSIVE SelectRows(_, _)
SelectRows(rows, radius) ==
    IF rows = <<>> THEN <<>>
    ELSE IF Head(rows).distance_miles <= radius
    THEN <<Head(rows)>> \o SelectRows(Tail(rows), radius)
    ELSE SelectRows(Tail(rows), radius)

\* stations[distance <= radius].sort_values('distance_miles').head(limit)
Nearby(df, radius, limit) ==
    LET ranked == SortByDistance(SelectRows(df.rows, radius))
    IN  SubSeq(ranked, 1, Min(limit, Len(ranked)))

\* one element of stations_list
StationItem(station) ==
    [id |-> station.id,
     name |-> station.station_name,
     latitude |-> station.latitude,
     longitude |-> station.longitude,
     distance_miles |-> station.distance_miles,
     total_ports |-> station.total_charging_ports]

\* the arguments are parsed
StationsReceive ==
    /\ stations_req.pc = "idle"
    /\ \E args \in StationsArgs :
          stations_req' =
             [stations_req EXCEPT
                 !.args = args,
                 !.pc = IF args.lat.given /\ args.lon.given
                        THEN "copy" ELSE "summary"]
    /\ UNCHANGED <<ev_api, conditions_req>>
    /\ UNCHANGED <<models, scaler, api_key, now, first, call, ret>>
    /\ UNCHANGED handlerVars

\* stations = ev_api.la_stations.copy()
StationsCopy ==
    /\ stations_req.pc = "copy"
    /\ stations_req' = [stations_req EXCEPT
                           !.stations = DataFrameCopy("la_stations"),
                           !.pc = "distance"]
    /\ UNCHANGED <<ev_api, conditions_req>>
    /\ UNCHANGED <<models, scaler, api_key, now, first, call, ret>>
    /\ UNCHANGED handlerVars

\* stations['distance_miles'] = stations.apply(calc_distance, axis=1).
\* calc_distance raises KeyError on a row without coordinates; on a table
\* without rows apply returns an empty frame, which the assignment takes or
\* refuses depending on the pandas version.
StationsAddDistance ==
    /\ stations_req.pc = "distance"
    /\ LET local == stations_req.stations
           df == Deref(local)
           args == stations_req.args
           values == [i \in DOMAIN df.rows |->
                         calc_distance(df.rows[i], args.lat.value,
                                       args.lon.value)]
           assigned == SetColumn(df, "distance_miles", values)
           Assign ==
               IF local.ref = "own"
               THEN /\ stations_req' =
                          [stations_req EXCEPT !.stations.frame = assigned,
                                               !.pc = "select"]
                    /\ UNCHANGED ev_api
               ELSE /\ ev_api' = [ev_api EXCEPT ![local.ref] = assigned]
                    /\ stations_req' = [stations_req EXCEPT !.pc = "select"]
           Raise(message) ==
               /\ stations_req' =
                     [stations_req EXCEPT !.response = StationsError(message),
                                          !.pc = "done"]
               /\ UNCHANGED ev_api
       IN  IF df.rows = <<>>
           THEN Assign \/ Raise("ValueError")
           ELSE IF {"latitude", "longitude"} \subseteq df.columns
           THEN Assign
           ELSE Raise("KeyError")
    /\ UNCHANGED conditions_req
    /\ UNCHANGED <<models, scaler, api_key, now, first, call, ret>>
    /\ UNCHANGED handlerVars

\* the nearby stations are selected and the response is built
StationsSelect ==
    /\ stations_req.pc = "select"
    /\ LET df == Deref(stations_req.stations)
           args == stations_req.args
           nearby == Nearby(df, args.radius, args.limit)
           stations_list == [i \in DOMAIN nearby |-> StationItem(nearby[i])]
       IN  stations_req' =
              [stations_req EXCEPT
                  !.response =
                      [NoStationsResponse EXCEPT
                          !.status = "success", !.code = 200,
                          !.stations = stations_list,
                          !.count = Len(stations_list)],
                  !.pc = "done"]
    /\ UNCHANGED <<ev_api, conditions_req>>
    /\ UNCHANGED <<models, scaler, api_key, now, first, call, ret>>
    /\ UNCHANGED handlerVars

\* without coordinates: the summary statistics
StationsSummary ==
    /\ stations_req.pc = "summary"
    /\ stations_req' =
          [stations_req EXCEPT
              !.response =
                  [NoStationsResponse EXCEPT
                      !.status = "success", !.code = 200,
                      !.summary = ev_api.station_summary,
                      !.total_stations = Len(ev_api.la_stations.rows),
                      !.high_capacity_stations =
                          Len(ev_api.high_capacity_stations.rows)],
              !.pc = "done"]
    /\ UNCHANGED <<ev_api, conditions_req>>
    /\ UNCHANGED <<models, scaler, api_key, now, first, call, ret>>
    /\ UNCHANGED handlerVars

\* The response is sent; the handler's locals are gone
StationsFinish ==
    /\ stations_req.pc = "done"
    /\ stations_req' = NoStationsRequest
    /\ UNCHANGED <<ev_api, conditions_req>>
    /\ UNCHANGED <<models, scaler, api_key, now, first, call, ret>>
    /\ UNCHANGED handlerVars

(***************************************************************************)
(* /api/current-conditions                                                 *)
(***************************************************************************)
\* weather = ev_api.fetch_current_weather()
ConditionsFetch ==
    /\ conditions_req.pc = "idle"
    /\ \E api \in SessionApiOutcomes, noise \in NormalNoise :
          conditions_req' =
             [conditions_req EXCEPT
                 !.weather = fetch_current_weather(now, api, noise),
                 !.pc = "respond"]
    /\ UNCHANGED <<ev_api, stations_req>>
    /\ UNCHANGED <<models, scaler, api_key, now, first, call, ret>>
    /\ UNCHANGED handlerVars

\* the solar estimate, both tariff quotes and the response; the weekday of
\* the wall clock is either a working day or a weekend day
ConditionsRespond ==
    /\ conditions_req.pc = "respond"
    /\ \E is_weekend \in BOOLEAN :
          LET weather == conditions_req.weather
              solar == calculate_solar_potential(datetime_now, weather)
              la == get_tou_rates(now.hour, is_weekend,
                                  "los_angeles_dept_water_power")
              sce == get_tou_rates(now.hour, is_weekend,
                                   "southern_california_edison")
          IN  conditions_req' =
                 [conditions_req EXCEPT
                     !.response =
                         IF la.raised # None
                         THEN [NoConditionsResponse EXCEPT
                                  !.status = "error", !.code = 500,
                                  !.message = la.raised]
                         ELSE IF sce.raised # None
                         THEN [NoConditionsResponse EXCEPT
                                  !.status = "error", !.code = 500,
                                  !.message = sce.raised]
                         ELSE [NoConditionsResponse EXCEPT
                                  !.status = "success", !.code = 200,
                                  !.weather = weather,
                                  !.solar = [ghi |-> solar.ghi,
                                             power_kw |-> solar.power_kw,
                                             hourly_energy_kwh |->
                                                 solar.hourly_energy_kwh],
                                  !.pricing =
                                      [los_angeles_dept_water_power |->
                                           [rate |-> la.rate,
                                            period |-> la.period],
                                       southern_california_edison |->
                                           [rate |-> sce.rate,
                                            period |-> sce.period]]],
                     !.pc = "done"]
    /\ UNCHANGED <<ev_api, stations_req>>
    /\ UNCHANGED <<models, scaler, api_key, now, first, call, ret>>
    /\ UNCHANGED handlerVars

\* The response is sent; the handler's locals are gone
ConditionsFinish ==
    /\ conditions_req.pc = "done"
    /\ conditions_req' = NoConditionsRequest
    /\ UNCHANGED <<ev_api, stations_req>>
    /\ UNCHANGED <<models, scaler, api_key, now, first, call, ret>>
    /\ UNCHANGED handlerVars

(***************************************************************************)
(* The three handlers serving requests at the same time, one request of    *)
(* each kind in flight, any number of requests one after the other         *)
(***************************************************************************)
\* a window of two candidate hours; a request that is rejected and a
\* utility whose tariff lookup raises
SharedRequests ==
    [session_start : {9 * 60 + 30}, delta : {90}, energy_needed : {0, 70000},
     utility : {"southern_california_edison", "ladwp"}]

ReceiveShared ==
    /\ pc = "idle"
    /\ \E r \in SharedRequests :
          request' = [session_start |-> r.session_start,
                      session_end |-> r.session_start + r.delta,
                      energy_needed |-> r.energy_needed,
                      utility |-> r.utility]
    /\ pc' = "validate"
    /\ UNCHANGED <<ev_api, stations_req, conditions_req>>
    /\ UNCHANGED <<models, scaler, api_key, now, current_time, schedule,
                   schedule_df, optimal_schedule, remaining_energy, response,
                   calls, externals, first, call, ret>>

\* what startup can leave behind
SharedDeployments ==
    {d \in Deployments : d.now.hour = 9 /\ (d.api_key \/ ~d.scaler)}

InitShared ==
    /\ \E d \in SharedDeployments :
          /\ models = d.models
          /\ scaler = d.scaler
          /\ api_key = d.api_key
          /\ now = d.now
    /\ HandlerIdle
    /\ first = NoFirst
    /\ \E load \in StationLoads : ev_api = Startup(load)
    /\ OthersIdle
    /\ call = NoCall
    /\ ret = NoRet

NextShared ==
    \/ ReceiveShared
    \/ Validate
    \/ LoopStep
    \/ AllocateAndRespond
    \/ Finish
    \/ StationsReceive
    \/ StationsCopy
    \/ StationsAddDistance
    \/ StationsSelect
    \/ StationsSummary
    \/ StationsFinish
    \/ ConditionsFetch
    \/ ConditionsRespond
    \/ ConditionsFinish

SpecShared == InitShared /\ [][NextShared]_vars

(***************************************************************************)
(* Direct calls of the helpers.  Each specification draws the arguments    *)
(* of one helper in its initial state and applies the helper.              *)
(***************************************************************************)
TouCalls ==
    [fn : {"get_tou_rates"}, hour : 0..(HoursPerDay - 1),
     is_weekend : BOOLEAN, utility : Utilities]

InitTou ==
    /\ models = {}
    /\ scaler = FALSE
    /\ api_key = FALSE
    /\ now = [hour |-> 0, month |-> 1]
    /\ HandlerIdle
    /\ first = NoFirst
    /\ ev_api = Startup(LoadedStationData)
    /\ OthersIdle
    /\ call \in TouCalls
    /\ ret = NoRet

CallTouRates ==
    /\ call.fn = "get_tou_rates"
    /\ ~ret.done
    /\ LET r == get_tou_rates(call.hour, call.is_weekend, call.utility)
       IN  ret' = [done |-> TRUE, raised |-> r.raised, rate |-> r.rate,
                   period |-> r.period]
    /\ UNCHANGED <<ev_api, stations_req, conditions_req>>
    /\ UNCHANGED <<models, scaler, api_key, now, first, call>>
    /\ UNCHANGED handlerVars

NextTou == CallTouRates

SpecTou == InitTou /\ [][NextTou]_vars

\* Weather snapshots handed to calculate_solar_potential
SolarWeathers ==
    [temperature : {-40, 77, 530}, clouds : {0, 20, 100}]
        \cup {[humidity |-> 65]}

Clocks == [hour : 0..(HoursPerDay - 1), month : 1..12]

InitSolar ==
    /\ models = {}
    /\ scaler = FALSE
    /\ api_key = FALSE
    /\ now \in Clocks
    /\ HandlerIdle
    /\ first = NoFirst
    /\ ev_api = Startup(LoadedStationData)
    /\ OthersIdle
    /\ call \in [fn : {"calculate_solar_potential"},
                 weather_data : SolarWeathers]
    /\ ret = NoRet

CallSolarPotential ==
    /\ call.fn = "calculate_solar_potential"
    /\ ~ret.done
    /\ LET r == calculate_solar_potential(now, call.weather_data)
       IN  ret' = [done |-> TRUE, ghi |-> r.ghi, power_kw |-> r.power_kw,
                   hourly_energy_kwh |-> r.hourly_energy_kwh]
    /\ UNCHANGED <<ev_api, stations_req, conditions_req>>
    /\ UNCHANGED <<models, scaler, api_key, now, first, call>>
    /\ UNCHANGED handlerVars

NextSolar == CallSolarPotential

SpecSolar == InitSolar /\ [][NextSolar]_vars

\* Timestamps scored: Monday 09:00, Wednesday 18:00, Saturday 14:00
ScoreTimes == {9 * 60, 2 * 1440 + 18 * 60, 5 * 1440 + 14 * 60}

ScoreWeathers ==
    {[temperature |-> 77, wind_speed |-> 50, clouds |-> 0],
     [temperature |-> 530, wind_speed |-> 78, clouds |-> 20]}

ScoreClocks == {[hour |-> 12, month |-> 6], [hour |-> 23, month |-> 12]}

InitScore ==
    /\ models \in ModelTables
    /\ scaler \in BOOLEAN
    /\ api_key = FALSE
    /\ now \in ScoreClocks
    /\ HandlerIdle
    /\ first = NoFirst
    /\ ev_api = Startup(LoadedStationData)
    /\ OthersIdle
    /\ call \in [fn : {"predict_optimization_score"}, dt : ScoreTimes,
                 weather_data : ScoreWeathers, utility : Utilities]
    /\ ret = NoRet

CallPredictScore ==
    /\ call.fn = "predict_optimization_score"
    /\ ~ret.done
    /\ \E outcome \in ModelOutcomes :
          LET r == predict_optimization_score(call.dt, call.weather_data,
                                              call.utility, outcome)
          IN  ret' = [done |-> TRUE, raised |-> r.raised, score |-> r.score,
                      outcome |-> outcome]
    /\ UNCHANGED <<ev_api, stations_req, conditions_req>>
    /\ UNCHANGED <<models, scaler, api_key, now, first, call>>
    /\ UNCHANGED handlerVars

NextScore == CallPredictScore

SpecScore == InitScore /\ [][NextScore]_vars

(***************************************************************************)
(* Properties of /api/optimize-session                                     *)
(***************************************************************************)
Succeeded == pc = "done" /\ response.status = "success"

\* the entries of the response, as a set of positions
Entries == 1..Len(response.charging_schedule)

\* ceil(energy / 50 kWh)
HoursNeeded(energy) == (energy + MaxHourEnergy - 1) \div MaxHourEnergy

\* the candidate hours that got no entry
Unallocated ==
    {i \in DOMAIN schedule :
        \A k \in Entries :
            response.charging_schedule[k].datetime # schedule[i].datetime}

\* C1: in every success response the energy_kwh of the returned entries
\* sums to min(energy_needed_kwh, 50 * N), N the number of candidate hours:
\* never more than requested, less only when 50 * N is less than requested.
C1_EnergySum ==
    Succeeded =>
        /\ SumField(response.charging_schedule, "energy_kwh")
              = Min(request.energy_needed, MaxHourEnergy * Len(schedule))
        /\ SumField(response.charging_schedule, "energy_kwh")
              <= request.energy_needed
        /\ (SumField(response.charging_schedule, "energy_kwh")
                < request.energy_needed
              => MaxHourEnergy * Len(schedule) < request.energy_needed)

\* a success response whose entries fall short of the request
C1_Witness ==
    /\ Succeeded
    /\ Len(schedule) = 2
    /\ request.energy_needed = 500000
    /\ SumField(response.charging_schedule, "energy_kwh") = 100000

\* C2: a request with session_end <= session_start or energy <= 0 ends with
\* an error response of code 400, and no helper was called and no candidate
\* or entry was produced for it.
C2_RejectedNotComputed ==
    (pc = "done" /\ (\/ request.session_end <= request.session_start
                     \/ request.energy_needed <= 0))
        => /\ response.status = "error"
           /\ response.code = 400
           /\ calls = NoCalls
           /\ schedule = <<>>
           /\ schedule_df = <<>>
           /\ optimal_schedule = <<>>
           /\ response.charging_schedule = <<>>

\* a rejected request with session_end = session_start and positive energy
C2_Witness ==
    /\ pc = "done"
    /\ request.session_end = request.session_start
    /\ request.session_start % MinutesPerHour # 0
    /\ request.energy_needed > 0
    /\ response.code = 400

\* C3: the greedy allocation fills the highest-scoring hours: min(N,
\* ceil(E/50)) entries, each for a distinct candidate hour; no returned hour
\* scores below a candidate without an entry; every entry has 50 kWh except
\* possibly a lowest-scoring one, which has the remainder; E <= 50 gives one
\* entry of E in a highest-scoring hour at cost E * rate; E >= 50 * N gives
\* 50 kWh to each of the N hours.
C3_GreedyAllocation ==
    Succeeded =>
        LET E == request.energy_needed
            N == Len(schedule)
            out == response.charging_schedule
            count == Min(N, HoursNeeded(E))
        IN  /\ Len(out) = count
            /\ \A k \in Entries :
                  \E i \in DOMAIN schedule :
                      /\ schedule[i].datetime = out[k].datetime
                      /\ schedule[i].optimization_score
                            = out[k].optimization_score
                      /\ schedule[i].utility_rate = out[k].utility_rate
            /\ \A k, l \in Entries :
                  k # l => out[k].datetime # out[l].datetime
            /\ \A k \in Entries : \A i \in Unallocated :
                  out[k].optimization_score >= schedule[i].optimization_score
            /\ \A k \in Entries :
                  \/ out[k].energy_kwh = MaxHourEnergy
                  \/ /\ \A l \in Entries : out[l].optimization_score
                                              >= out[k].optimization_score
                     /\ out[k].energy_kwh = E - MaxHourEnergy * (count - 1)
            /\ E <= MaxHourEnergy =>
                  /\ Len(out) = 1
                  /\ out[1].energy_kwh = E
                  /\ out[1].charging_cost = E * out[1].utility_rate
                  /\ \A i \in DOMAIN schedule :
                        out[1].optimization_score
                            >= schedule[i].optimization_score
            /\ E >= MaxHourEnergy * N =>
                  /\ Len(out) = N
                  /\ \A k \in Entries : out[k].energy_kwh = MaxHourEnergy

\* three candidates of different scores, 70 kWh: the two best get 50 and 20
C3_Witness ==
    /\ Succeeded
    /\ Len(schedule) = 3
    /\ request.energy_needed = 70000
    /\ Len(response.charging_schedule) = 2
    /\ \E i \in Unallocated :
          \A k \in Entries :
              response.charging_schedule[k].optimization_score
                  > schedule[i].optimization_score
    /\ \E k, l \in Entries :
          /\ response.charging_schedule[k].energy_kwh = 50000
          /\ response.charging_schedule[l].energy_kwh = 20000
          /\ response.charging_schedule[k].optimization_score
                > response.charging_schedule[l].optimization_score

(***************************************************************************)
(* Properties of get_tou_rates                                             *)
(***************************************************************************)
\* the rate table of Utility A as documented
UtilityATable(hour, is_weekend) ==
    IF is_weekend \/ hour >= 20 \/ hour < 10 THEN <<220, "base_period">>
    ELSE IF (10 <= hour /\ hour < 13) \/ (17 <= hour /\ hour < 20)
    THEN <<223, "low_peak">>
    ELSE <<370, "high_peak">>

\* the rate table of Utility B as documented
UtilityBTable(hour, is_weekend) ==
    IF is_weekend \/ hour < 16 \/ hour >= 22 THEN <<270, "off_peak">>
    ELSE IF (16 <= hour /\ hour < 18) \/ (20 <= hour /\ hour < 22)
    THEN <<300, "mid_peak">>
    ELSE <<320, "on_peak">>

\* C4: for utility 'los_angeles_dept_water_power' get_tou_rates returns the
\* Utility A table: base 0.22, low-peak 0.223, high-peak 0.37.
C4_UtilityATable ==
    (ret.done /\ call.utility = "los_angeles_dept_water_power")
        => /\ ret.raised = None
           /\ <<ret.rate, ret.period>>
                 = UtilityATable(call.hour, call.is_weekend)

\* C5: for utility 'southern_california_edison' get_tou_rates returns the
\* Utility B table: off-peak 0.27, mid-peak 0.30, on-peak 0.32.
C5_UtilityBTable ==
    (ret.done /\ call.utility = "southern_california_edison")
        => /\ ret.raised = None
           /\ <<ret.rate, ret.period>>
                 = UtilityBTable(call.hour, call.is_weekend)

\* a weekday 18:00 call for Utility B answered on-peak
C5_Witness ==
    /\ ret.done
    /\ call.utility = "southern_california_edison"
    /\ call.hour = 18
    /\ ~call.is_weekend
    /\ ret.period = "on_peak"
    /\ ret.rate = 320

\* C6: get_tou_rates never raises, for any hour, weekend flag and utility
\* identifier the code uses, its own default 'ladwp' included.
C6_NeverRaises == ret.done => ret.raised = None

\* C7: with is_weekend the call returns the cheapest period of the utility
\* asked for and its rate: base_period 0.22 for Utility A, off_peak 0.27 for
\* Utility B, never a peak period.
C7_WeekendCheapest ==
    (ret.done /\ call.is_weekend)
        => /\ ret.raised = None
           /\ ret.period \notin {"low_peak", "high_peak", "mid_peak", "on_peak"}
           /\ <<ret.rate, ret.period>>
                 = IF call.utility = "southern_california_edison"
                   THEN <<270, "off_peak">>
                   ELSE <<220, "base_period">>

(***************************************************************************)
(* Properties of calculate_solar_potential                                 *)
(***************************************************************************)
\* C8: power_kw = 0 and ghi = 0 for every hour outside [6, 19), whatever the
\* weather snapshot.
C8_ZeroOutsideDaylight ==
    (ret.done /\ (now.hour < 6 \/ now.hour >= 19))
        => /\ ret.power_kw = 0
           /\ ret.ghi = 0

(***************************************************************************)
(* Properties of predict_optimization_score                                *)
(***************************************************************************)
\* C9: the score is exactly 0.5 whenever the model table is empty, the
\* scaler is absent or the table has no 'lgb_<utility>' entry.
C9_NeutralWithoutModel ==
    (ret.done /\ (\/ models = {}
                  \/ ~scaler
                  \/ ("lgb_" \o call.utility) \notin models))
        => /\ ret.raised = None
           /\ ret.score = 500

\* models and scaler loaded, but none for the utility asked for, while the
\* model provider would have answered
C9_Witness ==
    /\ ret.done
    /\ models # {}
    /\ scaler
    /\ ("lgb_" \o call.utility) \notin models
    /\ ret.outcome.kind = "ok"
    /\ ret.outcome.score = 700
    /\ ret.score = 500

\* C10: no call raises; the score is within [0, 1]; it is 0.5 when transform
\* or predict raised.
C10_FailureAbsorbed ==
    ret.done =>
        /\ ret.raised = None
        /\ 0 <= ret.score /\ ret.score <= 1000
        /\ (ret.outcome.kind \in {"transform_raises", "predict_raises"}
              => ret.score = 500)

\* predict raised for a loaded model of the utility
C10_Witness ==
    /\ ret.done
    /\ models # {}
    /\ scaler
    /\ ("lgb_" \o call.utility) \in models
    /\ ret.outcome.kind = "predict_raises"
    /\ ret.raised = None
    /\ ret.score = 500

(***************************************************************************)
(* Properties of two identical requests                                    *)
(***************************************************************************)
\* C11: the second of two requests with identical fields and identical
\* provider answers returns the charging_schedule and optimization_summary
\* of the first.
C11_Deterministic ==
    (first.done /\ pc = "done")
        => /\ response.status = first.response.status
           /\ response.charging_schedule = first.response.charging_schedule
           /\ response.optimization_summary
                 = first.response.optimization_summary

(***************************************************************************)
(* Windows shorter than one hour                                           *)
(***************************************************************************)
\* a window that passes validation and is shorter than one hour
SubHourWindow ==
    /\ request.energy_needed > 0
    /\ request.session_start < request.session_end
    /\ request.session_end - request.session_start < MinutesPerHour

\* C12 (as stated): a validated window shorter than one hour gets an empty
\* charging_schedule with total_cost, solar_offset_kwh and charging_hours 0.
C12_EmptySchedule ==
    (Succeeded /\ SubHourWindow) =>
        /\ response.charging_schedule = <<>>
        /\ response.optimization_summary.total_cost = 0
        /\ response.optimization_summary.solar_offset_kwh = 0
        /\ response.optimization_summary.charging_hours = 0

\* C12 (amended): a validated window shorter than one hour still has the
\* truncated start hour as a candidate, so a success response carries one or
\* two entries, charging_hours counts them, and together they receive
\* min(energy_needed, 50 kWh per candidate hour), which is not zero.
C12_NonEmptySchedule ==
    (Succeeded /\ SubHourWindow) =>
        /\ Len(schedule) >= 1
        /\ schedule[1].datetime
              = isoformat(TruncateToHour(request.session_start))
        /\ Len(response.charging_schedule) \in 1..2
        /\ response.optimization_summary.charging_hours
              = Len(response.charging_schedule)
        /\ SumField(response.charging_schedule, "energy_kwh")
              = Min(request.energy_needed, MaxHourEnergy * Len(schedule))
        /\ SumField(response.charging_schedule, "energy_kwh") > 0
        /\ response.optimization_summary.total_cost
              = SumField(response.charging_schedule, "charging_cost")

C12_Witness ==
    /\ Succeeded
    /\ SubHourWindow
    /\ request.session_end = request.session_start + 1
    /\ response.optimization_summary.charging_hours = 1
    /\ response.optimization_summary.total_cost > 0

\* C13 (as stated): every validated window shorter than one hour has zero
\* or one candidate hour and is answered with a success response.
C13_ZeroOrOneCandidate ==
    (pc = "done" /\ SubHourWindow) =>
        /\ response.status = "success"
        /\ Len(schedule) <= 1

\* C13 (amended): a validated window shorter than one hour has one candidate
\* hour, or two when the hour after the truncated start begins before
\* session_end; it is never rejected with 400 and is answered with success
\* for both utility identifiers of the endpoints, while utility 'ladwp' gets
\* the 500 of the tariff lookup.
C13_OneOrTwoCandidates ==
    (pc = "done" /\ SubHourWindow) =>
        IF request.utility = "ladwp"
        THEN /\ response.code = 500
             /\ response.message = "AttributeError"
        ELSE /\ response.status = "success"
             /\ Len(schedule) \in 1..2
             /\ Len(schedule) = 2
                   <=> (request.session_start
                           - (request.session_start % MinutesPerHour)
                           + MinutesPerHour < request.session_end)

C13_Witness ==
    /\ Succeeded
    /\ SubHourWindow
    /\ Len(schedule) = 2

(***************************************************************************)
(* The returned schedule and its summary                                   *)
(***************************************************************************)
\* minutes since the start of the week of an isoformat value
MinutesOf(iso) ==
    (iso[1] * HoursPerDay + iso[2]) * MinutesPerHour + iso[3]

\* C14: the charging_schedule of a success response is strictly ascending
\* by datetime, whatever order the ranking allocated the hours in.
C14_AscendingByDatetime ==
    Succeeded =>
        \A k \in Entries :
            k + 1 \in Entries =>
                MinutesOf(response.charging_schedule[k].datetime)
                    < MinutesOf(response.charging_schedule[k + 1].datetime)

\* the ranking allocated a later hour before an earlier one
C14_Witness ==
    /\ Succeeded
    /\ Len(optimal_schedule) >= 2
    /\ MinutesOf(optimal_schedule[1].datetime)
          > MinutesOf(optimal_schedule[2].datetime)

\* C15: the summary of a success response is computed from the returned
\* entries and the request: total_cost and solar_offset_kwh are the sums
\* over the entries, charging_hours their number, average_rate and
\* solar_percentage the quotients by the requested energy, and
\* total_energy_kwh is the requested energy even when less was allocated.
C15_SummaryFormulas ==
    Succeeded =>
        LET summary == response.optimization_summary
            E == request.energy_needed
        IN  /\ summary.total_cost
                  = SumField(response.charging_schedule, "charging_cost")
            /\ summary.solar_offset_kwh
                  = SumField(response.charging_schedule, "solar_offset")
            /\ summary.charging_hours = Len(response.charging_schedule)
            /\ summary.average_rate * E <= summary.total_cost
            /\ summary.total_cost < (summary.average_rate + 1) * E
            /\ summary.solar_percentage * E <= 100 * summary.solar_offset_kwh
            /\ 100 * summary.solar_offset_kwh
                  < (summary.solar_percentage + 1) * E
            /\ summary.total_energy_kwh = E
            /\ DOMAIN response = DOMAIN NoResponse
            /\ DOMAIN summary
                  = {"total_energy_kwh", "total_cost", "average_rate",
                     "solar_offset_kwh", "solar_percentage",
                     "charging_hours", "utility"}

\* less energy was allocated than requested
C15_Witness ==
    /\ Succeeded
    /\ SumField(response.charging_schedule, "energy_kwh")
          < response.optimization_summary.total_energy_kwh
    /\ Len(response.charging_schedule) >= 2

\* C16: a failing weather provider never fails the request: every fetch
\* makes at most one attempt, every fetch without an answer of status 200
\* and a full body uses the fallback snapshot (humidity 65, clouds 20,
\* 'partly cloudy'), a validated request fails only by the tariff lookup of
\* utility 'ladwp', and a success has one candidate per fetch.
C16_WeatherFailureAbsorbed ==
    /\ calls.requests_get <= calls.fetch_current_weather
    /\ \A k \in DOMAIN externals :
          externals[k].api # "ok" =>
              /\ externals[k].weather.humidity = 65
              /\ externals[k].weather.clouds = 20
              /\ externals[k].weather.description = "partly cloudy"
    /\ (pc = "done" /\ response.code = 500) =>
          /\ request.utility = "ladwp"
          /\ response.message = "AttributeError"
    /\ Succeeded =>
          /\ Len(schedule) = calls.fetch_current_weather
          /\ Len(externals) = Len(schedule)
          /\ \A k \in DOMAIN schedule :
                schedule[k].temperature = externals[k].weather.temperature

\* a success although the provider failed for every candidate hour
C16_Witness ==
    /\ Succeeded
    /\ api_key
    /\ Len(schedule) >= 2
    /\ calls.requests_get = Len(schedule)
    /\ \A k \in DOMAIN externals : externals[k].api = "failed"

(***************************************************************************)
(* The candidate hours                                                     *)
(***************************************************************************)
\* C17: the candidate hours are t_k = t_0 + k hours, k = 0, 1, ..., with
\* t_0 the hour boundary at or before session_start and t_k < session_end,
\* one candidate per t_k in chronological order; the loop ends after
\* ceil((session_end - t_0) / 1 hour) steps with every such t_k enumerated.
C17_CandidateHours ==
    /\ \A k \in DOMAIN schedule :
          /\ MinutesOf(schedule[k].datetime)
                = MinutesOf(schedule[1].datetime) + (k - 1) * MinutesPerHour
          /\ MinutesOf(schedule[k].datetime) < request.session_end
          /\ schedule[k].hour
                = (MinutesOf(schedule[k].datetime) \div MinutesPerHour)
                      % HoursPerDay
    /\ schedule # <<>> =>
          /\ MinutesOf(schedule[1].datetime) % MinutesPerHour = 0
          /\ MinutesOf(schedule[1].datetime) <= request.session_start
          /\ request.session_start
                < MinutesOf(schedule[1].datetime) + MinutesPerHour
    /\ Succeeded =>
          /\ Len(schedule) >= 1
          /\ MinutesOf(schedule[1].datetime) + Len(schedule) * MinutesPerHour
                >= request.session_end

\* three candidates from a session_start that is not on the hour
C17_Witness ==
    /\ Succeeded
    /\ request.session_start % MinutesPerHour # 0
    /\ Len(schedule) = 3
    /\ MinutesOf(schedule[3].datetime) + MinutesPerHour = request.session_end

\* C18: every returned entry has 0 < energy_kwh <= 50, charging_cost =
\* energy_kwh * utility_rate >= 0 and solar_offset = min(energy_kwh,
\* solar_available_kw), so 0 <= solar_offset <= energy_kwh; the summary's
\* solar_offset_kwh is at most the requested energy and solar_percentage
\* lies in [0, 100].
C18_EntryBounds ==
    Succeeded =>
        /\ \A k \in Entries :
              LET e == response.charging_schedule[k]
              IN  /\ 0 < e.energy_kwh
                  /\ e.energy_kwh <= 50 * 1000
                  /\ e.charging_cost = e.energy_kwh * e.utility_rate
                  /\ e.charging_cost >= 0
                  /\ e.solar_offset
                        = IF e.energy_kwh <= e.solar_available_kw
                          THEN e.energy_kwh ELSE e.solar_available_kw
                  /\ 0 <= e.solar_offset
                  /\ e.solar_offset <= e.energy_kwh
        /\ response.optimization_summary.solar_offset_kwh
              <= request.energy_needed
        /\ response.optimization_summary.solar_percentage \in 0..100

\* one entry limited by the solar power, another by its own energy
C18_Witness ==
    /\ Succeeded
    /\ \E j, k \in Entries :
          LET a == response.charging_schedule[j]
              b == response.charging_schedule[k]
          IN  /\ 0 < a.solar_available_kw
              /\ a.solar_available_kw < a.energy_kwh
              /\ a.solar_offset = a.solar_available_kw
              /\ b.energy_kwh < b.solar_available_kw
              /\ b.solar_offset = b.energy_kwh

\* every fetch of the request returned the same snapshot values
SameWeatherThroughout ==
    \A k \in DOMAIN externals : externals[k].weather = externals[1].weather

\* C19: when every fetch of a request returns the same snapshot values and
\* the wall clock stays at the same hour and month, every candidate hour
\* and every schedule entry carries the same solar power, the estimate for
\* the wall-clock hour, also for candidates whose own hour is at night.
C19_SolarIndependentOfCandidate ==
    (Succeeded /\ SameWeatherThroughout) =>
        LET estimate == calculate_solar_potential(now, externals[1].weather)
        IN  /\ \A k \in DOMAIN schedule :
                  schedule[k].solar_power_kw = estimate.power_kw
            /\ \A k \in Entries :
                  response.charging_schedule[k].solar_available_kw
                      = estimate.power_kw

\* night candidates with the daylight estimate of the wall clock
C19_Witness ==
    /\ Succeeded
    /\ SameWeatherThroughout
    /\ Len(response.charging_schedule) >= 2
    /\ now.hour = 9
    /\ \A k \in Entries :
          /\ response.charging_schedule[k].hour \in {23, 0, 1}
          /\ response.charging_schedule[k].solar_available_kw > 0

\* C20: ties of the ranking keep the chronological order (a stable sort):
\* among candidates of equal score the hours that receive energy are the
\* chronologically earliest ones.
C20_StableTies ==
    Succeeded =>
        \A i \in Unallocated :
            \A k \in Entries :
                response.charging_schedule[k].optimization_score
                      = schedule[i].optimization_score
                   => MinutesOf(response.charging_schedule[k].datetime)
                         < MinutesOf(schedule[i].datetime)

(***************************************************************************)
(* Shared state                                                            *)
(***************************************************************************)
\* C21: no step of a current-conditions, optimize-session or stations
\* request, in any interleaving and whether the request succeeds or fails,
\* changes the rate tables, the model table, the scaler, the station table
\* (rows and columns), the high-capacity table or the station summary.
C21_SharedStateUnchanged ==
    [][/\ ev_api' = ev_api
       /\ models' = models
       /\ scaler' = scaler]_vars

\* the distance column is on the copy of a stations request while an
\* optimize-session and a current-conditions request are being served
C21_Witness ==
    /\ stations_req.pc = "select"
    /\ "distance_miles" \in stations_req.stations.frame.columns
    /\ "distance_miles" \notin ev_api.la_stations.columns
    /\ stations_req.stations.frame.rows # <<>>
    /\ pc = "loop"
    /\ schedule # <<>>
    /\ conditions_req.pc = "respond"

====
